---------------------------- MODULE Spec2Model ----------------------------
(***************************************************************************)
(* A model of assert_fs: the fixture operations of src/fixture/tools.rs    *)
(* (create_dir_all, touch, write_binary, write_str, write_file, copy_from) *)
(* and the path assertions of src/assert.rs, acting on the tree of one     *)
(* temporary directory.                                                    *)
(*                                                                         *)
(* A path is the sequence of its components below the temporary directory; *)
(* <<>> is the temporary directory itself, which exists throughout.  The   *)
(* files that write_file and copy_from read lie outside the temporary      *)
(* directory and no operation writes to them: they are the fixed trees of  *)
(* SourceTree.  A file's content is its sequence of bytes; a text is its   *)
(* sequence of Unicode scalar values.                                      *)
(*                                                                         *)
(* Every record is written with its fields in the order in which TLC keeps *)
(* them (that of the first use of each name in this module), so that no    *)
(* record is reordered while the workers of TLC share it.                  *)
(***************************************************************************)
EXTENDS Naturals, Sequences, FiniteSets

VARIABLES fs, last, steps, held

vars == <<fs, last, steps, held>>

(***************************************************************************)
(* Bounds of the model.                                                    *)
(***************************************************************************)
\* The number of operations on paths of one test.
MaxOps == 2

(***************************************************************************)
(* The universe: paths, bytes, texts.                                      *)
(***************************************************************************)
Root == <<>>

TempPaths ==
    { <<"a.txt">>, <<"b.md">>, <<"sub">>, <<"sub", "c.txt">>,
      <<"sub", "sub">>, <<"sub", "sub", "c.txt">> }

AllPaths == TempPaths \cup {Root}

\* The contents a test writes or compares with: nothing, "a", U+00E9 in its
\* two bytes, each of the two bytes alone (neither is UTF-8), and "aa".
Contents == { <<>>, <<97>>, <<195, 169>>, <<195>>, <<169>>, <<97, 97>> }

\* The texts a test writes or compares with: "", "a", U+00E9, "aa".
Texts == { <<>>, <<97>>, <<233>>, <<97, 97>> }

MissingNode == [kind |-> "missing", data |-> <<>>]
DirNode == [kind |-> "dir", data |-> <<>>]
FileNode(bytes) == [kind |-> "file", data |-> bytes]

Parent(p) == SubSeq(p, 1, Len(p) - 1)

IsPrefix(a, p) == Len(a) <= Len(p) /\ SubSeq(p, 1, Len(a)) = a

\* The directories above p, the temporary directory excluded.
Ancestors(p) == { a \in TempPaths : IsPrefix(a, p) /\ a # p }

IsDir(f, p) == p = Root \/ f[p].kind = "dir"
IsFile(f, p) == p # Root /\ f[p].kind = "file"
Exists(f, p) == p = Root \/ f[p].kind # "missing"

EmptyFs == [p \in TempPaths |-> MissingNode]

(***************************************************************************)
(* std::fs, as the fixture operations use it.  Every operator returns the  *)
(* outcome and the tree it leaves.                                         *)
(***************************************************************************)
\* mkdir(2) of one directory.
Mkdir(f, p) ==
    IF p = Root THEN [fs |-> f, err |-> "EEXIST"]
    ELSE IF ~Exists(f, Parent(p)) THEN [fs |-> f, err |-> "ENOENT"]
    ELSE IF ~IsDir(f, Parent(p)) THEN [fs |-> f, err |-> "ENOTDIR"]
    ELSE IF Exists(f, p) THEN [fs |-> f, err |-> "EEXIST"]
    ELSE [fs |-> [f EXCEPT ![p] = DirNode], err |-> "ok"]

\* std::fs::create_dir_all: mkdir, and on NotFound the parents first; a
\* failed mkdir of a path that is a directory is a success.
RECURSIVE FsCreateDirAll(_, _)
FsCreateDirAll(f, p) ==
    LET first == Mkdir(f, p)
    IN  IF first.err = "ok" THEN [fs |-> first.fs, ok |-> TRUE]
        ELSE IF first.err # "ENOENT"
        THEN [fs |-> f, ok |-> IsDir(f, p)]
        ELSE LET up == FsCreateDirAll(f, Parent(p))
             IN  IF ~up.ok THEN up
                 ELSE LET second == Mkdir(up.fs, p)
                      IN  IF second.err = "ok"
                          THEN [fs |-> second.fs, ok |-> TRUE]
                          ELSE [fs |-> up.fs, ok |-> IsDir(up.fs, p)]

\* An open for writing that creates the file and keeps what it holds.
FsFileCreateNoTruncate(f, p) ==
    IF p = Root \/ ~IsDir(f, Parent(p)) \/ IsDir(f, p)
    THEN [fs |-> f, ok |-> FALSE]
    ELSE [fs |-> IF IsFile(f, p) THEN f ELSE [f EXCEPT ![p] = FileNode(<<>>)],
          ok |-> TRUE]

\* std::fs::File::create: open for writing, create, truncate.
FsFileCreate(f, p) ==
    IF p = Root \/ ~IsDir(f, Parent(p)) \/ IsDir(f, p)
    THEN [fs |-> f, ok |-> FALSE]
    ELSE [fs |-> [f EXCEPT ![p] = FileNode(<<>>)], ok |-> TRUE]

\* Write::write_all on the file File::create opened: the bytes go in at the
\* file's position, which is the end of what it holds.
FsWriteAll(f, p, bytes) == [f EXCEPT ![p] = FileNode(f[p].data \o bytes)]

\* std::fs::copy from a node outside the temporary directory: the source is
\* opened first and must be a regular file, then the target is created,
\* truncated and filled.
FsCopy(f, from, to) ==
    IF from.kind # "file" THEN [fs |-> f, ok |-> FALSE]
    ELSE LET made == FsFileCreate(f, to)
         IN  IF ~made.ok THEN made
             ELSE [fs |-> FsWriteAll(made.fs, to, from.data), ok |-> TRUE]

\* Reading a whole file: only a regular file can be read.
ReadFile(f, p) ==
    IF IsFile(f, p) THEN [data |-> f[p].data, ok |-> TRUE]
    ELSE [data |-> <<>>, ok |-> FALSE]

(***************************************************************************)
(* UTF-8: str::as_bytes and str::from_utf8.                                *)
(***************************************************************************)
EncodeChar(c) ==
    IF c < 128 THEN <<c>>
    ELSE IF c < 2048 THEN <<192 + (c \div 64), 128 + (c % 64)>>
    ELSE IF c < 65536
    THEN <<224 + (c \div 4096), 128 + ((c \div 64) % 64), 128 + (c % 64)>>
    ELSE <<240 + (c \div 262144), 128 + ((c \div 4096) % 64),
           128 + ((c \div 64) % 64), 128 + (c % 64)>>

\* The text in Latin-1, one byte for each scalar value, in place of UTF-8.
AsBytesLatin1(s) == s

RECURSIVE AsBytes(_)
AsBytes(s) == IF s = <<>> THEN <<>> ELSE EncodeChar(Head(s)) \o AsBytes(Tail(s))

IsCont(b) == 128 <= b /\ b <= 191

\* The number of bytes of the scalar value that starts b, 0 when b starts
\* with no well-formed one.
Width(b) ==
    LET b1 == b[1]
    IN  IF b1 < 128 THEN 1
        ELSE IF 194 <= b1 /\ b1 <= 223
        THEN IF Len(b) >= 2 /\ IsCont(b[2]) THEN 2 ELSE 0
        ELSE IF 224 <= b1 /\ b1 <= 239
        THEN IF /\ Len(b) >= 3 /\ IsCont(b[2]) /\ IsCont(b[3])
                /\ (b1 = 224 => b[2] >= 160)
                /\ (b1 = 237 => b[2] <= 159)
             THEN 3 ELSE 0
        ELSE IF 240 <= b1 /\ b1 <= 244
        THEN IF /\ Len(b) >= 4 /\ IsCont(b[2]) /\ IsCont(b[3]) /\ IsCont(b[4])
                /\ (b1 = 240 => b[2] >= 144)
                /\ (b1 = 244 => b[2] <= 143)
             THEN 4 ELSE 0
        ELSE 0

DecodeChar(b, w) ==
    IF w = 1 THEN b[1]
    ELSE IF w = 2 THEN (b[1] - 192) * 64 + (b[2] - 128)
    ELSE IF w = 3 THEN (b[1] - 224) * 4096 + (b[2] - 128) * 64 + (b[3] - 128)
    ELSE (b[1] - 240) * 262144 + (b[2] - 128) * 4096
         + (b[3] - 128) * 64 + (b[4] - 128)

RECURSIVE FromUtf8(_)
FromUtf8(b) ==
    IF b = <<>> THEN [ok |-> TRUE, text |-> <<>>]
    ELSE LET w == Width(b)
         IN  IF w = 0 THEN [ok |-> FALSE, text |-> <<>>]
             ELSE LET rest == FromUtf8(SubSeq(b, w + 1, Len(b)))
                  IN  IF ~rest.ok THEN rest
                      ELSE [ok |-> TRUE,
                            text |-> <<DecodeChar(b, w)>> \o rest.text]

(***************************************************************************)
(* The trees outside the temporary directory that write_file and copy_from *)
(* read.  "proj" holds a.txt, b.md and sub/c.txt; "deep" holds files two   *)
(* directories down and a directory named a.txt; "locked" has a directory  *)
(* that cannot be read; "gone" does not exist.                             *)
(***************************************************************************)
Sources == {"proj", "deep", "locked", "gone"}

SourcePaths == TempPaths

SourceTree(source) ==
    [p \in SourcePaths |->
        CASE source = "proj" ->
               (CASE p = <<"a.txt">> -> FileNode(<<97>>)
                  [] p = <<"b.md">> -> FileNode(<<195, 169>>)
                  [] p = <<"sub">> -> DirNode
                  [] p = <<"sub", "c.txt">> -> FileNode(<<169>>)
                  [] OTHER -> MissingNode)
          [] source = "deep" ->
               (CASE p = <<"sub">> -> DirNode
                  [] p = <<"sub", "sub">> -> DirNode
                  [] p = <<"sub", "sub", "c.txt">> -> FileNode(<<97, 97>>)
                  [] p = <<"sub", "c.txt">> -> FileNode(<<>>)
                  [] p = <<"a.txt">> -> DirNode
                  [] OTHER -> MissingNode)
          [] source = "locked" ->
               (CASE p = <<"a.txt">> -> FileNode(<<195>>)
                  [] p = <<"sub">> -> [kind |-> "locked", data |-> <<>>]
                  [] OTHER -> MissingNode)
          [] OTHER -> MissingNode]

SourceExists(source) == source # "gone"

(***************************************************************************)
(* src/fixture/tools.rs.  Every operation returns [res, fs]: "Ok" or the   *)
(* kind of the FixtureError, and the tree it leaves.                       *)
(***************************************************************************)
\* `?`: the rest of the function runs only after a success.
Then(r, rest) == IF r.res = "Ok" THEN rest ELSE r

\* ensure_parent_dir with std::fs::create_dir, which makes one directory
\* and needs its parent, in place of create_dir_all.
ensure_parent_dir_one(f, path) ==
    LET made == Mkdir(f, Parent(path))
    IN  [fs |-> made.fs,
         res |-> IF made.err = "ok" \/ IsDir(f, Parent(path))
                 THEN "Ok" ELSE "CreateDir"]

ensure_parent_dir(f, path) ==
    LET made == FsCreateDirAll(f, Parent(path))
    IN  [fs |-> made.fs, res |-> IF made.ok THEN "Ok" ELSE "CreateDir"]

create_dir_all(f, path) ==
    LET made == FsCreateDirAll(f, path)
    IN  [fs |-> made.fs, res |-> IF made.ok THEN "Ok" ELSE "CreateDir"]

\* touch that leaves a file that exists as it is.
touch_keep(f, path) ==
    LET dir == ensure_parent_dir(f, path)
        made == FsFileCreate(dir.fs, path)
    IN  Then(dir, IF IsFile(dir.fs, path) THEN dir
                  ELSE [fs |-> made.fs,
                        res |-> IF made.ok THEN "Ok" ELSE "WriteFile"])

touch(f, path) ==
    LET dir == ensure_parent_dir(f, path)
        made == FsFileCreate(dir.fs, path)
    IN  Then(dir, [fs |-> made.fs,
                   res |-> IF made.ok THEN "Ok" ELSE "WriteFile"])

\* write_binary with Write::write in place of write_all: one call, which may
\* take less than it is given (here one byte).
write_binary_short(f, path, data) ==
    LET dir == ensure_parent_dir(f, path)
        made == FsFileCreate(dir.fs, path)
    IN  Then(dir,
             IF ~made.ok THEN [fs |-> made.fs, res |-> "WriteFile"]
             ELSE [fs |-> FsWriteAll(made.fs, path,
                                    IF data = <<>> THEN <<>> ELSE <<data[1]>>),
                   res |-> "Ok"])

write_binary(f, path, data) ==
    LET dir == ensure_parent_dir(f, path)
        made == FsFileCreate(dir.fs, path)
    IN  Then(dir,
             IF ~made.ok THEN [fs |-> made.fs, res |-> "WriteFile"]
             ELSE [fs |-> FsWriteAll(made.fs, path, data), res |-> "Ok"])

\* The error of the inner write_binary is chained: its kind is WriteFile
\* whatever the inner kind was.
write_str(f, path, text) ==
    LET dir == ensure_parent_dir(f, path)
        wrote == write_binary(dir.fs, path, AsBytes(text))
    IN  Then(dir, [fs |-> wrote.fs,
                   res |-> IF wrote.res = "Ok" THEN "Ok" ELSE "WriteFile"])

\* data is a path outside the temporary directory; from is what lies there.
write_file(f, path, from) ==
    LET dir == ensure_parent_dir(f, path)
        copied == FsCopy(dir.fs, from, path)
    IN  Then(dir, [fs |-> copied.fs,
                   res |-> IF copied.ok THEN "Ok" ELSE "CopyFile"])

(***************************************************************************)
(* globwalk, as copy_files uses it: walkdir's walk of the source (a        *)
(* directory before what it holds, the entries of one directory in no      *)
(* fixed order, an error in place of the entries of a directory that       *)
(* cannot be read), filtered by the patterns.  A pattern with no slash is  *)
(* matched against an entry's name at any depth.                           *)
(***************************************************************************)
PatternLists ==
    { <<>>, <<"*.txt">>, <<"*.md">>, <<"*.txt", "*.md">>, <<"sub">>, <<"*">>,
      <<"[">> }

\* "[" opens a character class that nothing closes.
ValidGlob(pat) == pat # "["

Extension(name) ==
    CASE name \in {"a.txt", "c.txt"} -> "txt"
      [] name = "b.md" -> "md"
      [] OTHER -> ""

GlobMatch(pat, rel) ==
    LET name == rel[Len(rel)]
    IN  CASE pat = "*" -> TRUE
          [] pat = "*.txt" -> Extension(name) = "txt"
          [] pat = "*.md" -> Extension(name) = "md"
          [] OTHER -> pat = name

Matched(patterns, rel) ==
    \E i \in 1..Len(patterns) : GlobMatch(patterns[i], rel)

RECURSIVE Perms(_)
Perms(S) ==
    IF S = {} THEN { <<>> }
    ELSE UNION { { <<x>> \o rest : rest \in Perms(S \ {x}) } : x \in S }

Kids(tree, d) ==
    { p \in SourcePaths : Parent(p) = d /\ tree[p].kind # "missing" }

WalkError == [kind |-> "error", path |-> <<>>]

RECURSIVE WalkDir(_, _)
RECURSIVE WalkKids(_, _)
WalkKids(tree, kids) ==
    IF kids = <<>> THEN { <<>> }
    ELSE LET k == Head(kids)
             below == CASE tree[k].kind = "dir" -> WalkDir(tree, k)
                        [] tree[k].kind = "locked" -> { <<WalkError>> }
                        [] OTHER -> { <<>> }
             kind == IF tree[k].kind = "locked" THEN "dir" ELSE tree[k].kind
         IN  { <<[kind |-> kind, path |-> k]>> \o sub \o rest :
                   sub \in below, rest \in WalkKids(tree, Tail(kids)) }

\* Every order in which walkdir may yield what lies below directory d.
WalkDir(tree, d) ==
    UNION { WalkKids(tree, kids) : kids \in Perms(Kids(tree, d)) }

\* A walker for which no pattern means every entry.
GlobWalkAllWhenEmpty(patterns, walk) ==
    SelectSeq(walk, LAMBDA e : \/ e.kind = "error"
                               \/ patterns = <<>>
                               \/ Matched(patterns, e.path))

\* GlobWalker::next: an error is passed on, an entry is yielded when a
\* pattern matches its path relative to the source.
GlobWalk(patterns, walk) ==
    SelectSeq(walk, LAMBDA e : e.kind = "error" \/ Matched(patterns, e.path))

RECURSIVE CopyEntries(_, _, _, _)

\* The loop without the create_dir_all of a file's parent.
RECURSIVE CopyEntriesNoParent(_, _, _, _)
CopyEntriesNoParent(f, target, tree, entries) ==
    IF entries = <<>> THEN [fs |-> f, res |-> "Ok"]
    ELSE LET entry == Head(entries)
             target_path == target \o entry.path
         IN  CASE entry.kind = "error" -> [fs |-> f, res |-> "Walk"]
               [] entry.kind = "dir" ->
                    LET made == FsCreateDirAll(f, target_path)
                    IN  IF ~made.ok THEN [fs |-> made.fs, res |-> "CreateDir"]
                        ELSE CopyEntriesNoParent(made.fs, target, tree,
                                                 Tail(entries))
               [] entry.kind = "file" ->
                    LET copied == FsCopy(f, tree[entry.path], target_path)
                    IN  IF ~copied.ok
                        THEN [fs |-> copied.fs, res |-> "CopyFile"]
                        ELSE CopyEntriesNoParent(copied.fs, target, tree,
                                                 Tail(entries))
               [] OTHER -> CopyEntriesNoParent(f, target, tree, Tail(entries))

\* The loop that goes on to the next entry after a file could not be copied
\* and reports the failure at the end.
RECURSIVE CopyEntriesKeepGoing(_, _, _, _)
CopyEntriesKeepGoing(f, target, tree, entries) ==
    IF entries = <<>> THEN [fs |-> f, res |-> "Ok"]
    ELSE LET entry == Head(entries)
             target_path == target \o entry.path
         IN  CASE entry.kind = "error" -> [fs |-> f, res |-> "Walk"]
               [] entry.kind = "dir" ->
                    LET made == FsCreateDirAll(f, target_path)
                    IN  IF ~made.ok THEN [fs |-> made.fs, res |-> "CreateDir"]
                        ELSE CopyEntriesKeepGoing(made.fs, target, tree,
                                                  Tail(entries))
               [] entry.kind = "file" ->
                    LET made == FsCreateDirAll(f, Parent(target_path))
                        copied == FsCopy(made.fs, tree[entry.path], target_path)
                        rest == CopyEntriesKeepGoing(copied.fs, target, tree,
                                                     Tail(entries))
                    IN  IF ~made.ok THEN [fs |-> made.fs, res |-> "CreateDir"]
                        ELSE IF ~copied.ok
                        THEN [fs |-> rest.fs, res |-> "CopyFile"]
                        ELSE rest
               [] OTHER -> CopyEntriesKeepGoing(f, target, tree, Tail(entries))

\* The body of copy_files' loop, over the entries the walker yields.
CopyEntries(f, target, tree, entries) ==
    IF entries = <<>> THEN [fs |-> f, res |-> "Ok"]
    ELSE LET entry == Head(entries)
             target_path == target \o entry.path
         IN  CASE entry.kind = "error" -> [fs |-> f, res |-> "Walk"]
               [] entry.kind = "dir" ->
                    LET made == FsCreateDirAll(f, target_path)
                    IN  IF ~made.ok THEN [fs |-> made.fs, res |-> "CreateDir"]
                        ELSE CopyEntries(made.fs, target, tree, Tail(entries))
               [] entry.kind = "file" ->
                    LET made == FsCreateDirAll(f, Parent(target_path))
                        copied == FsCopy(made.fs, tree[entry.path], target_path)
                    IN  IF ~made.ok THEN [fs |-> made.fs, res |-> "CreateDir"]
                        ELSE IF ~copied.ok
                        THEN [fs |-> copied.fs, res |-> "CopyFile"]
                        ELSE CopyEntries(copied.fs, target, tree, Tail(entries))
               [] OTHER -> CopyEntries(f, target, tree, Tail(entries))

\* copy_files that unwraps the canonical path of the source: a source that
\* does not resolve is a panic.
copy_files_unwrap(f, target, source, patterns, walk) ==
    IF ~SourceExists(source) THEN [fs |-> f, res |-> "Panic"]
    ELSE IF \E i \in 1..Len(patterns) : ~ValidGlob(patterns[i])
    THEN [fs |-> f, res |-> "Walk"]
    ELSE CopyEntries(f, target, SourceTree(source), GlobWalk(patterns, walk))

\* walk is the order in which walkdir yields the source's entries.
copy_files(f, target, source, patterns, walk) ==
    IF ~SourceExists(source) THEN [fs |-> f, res |-> "Walk"]
    ELSE IF \E i \in 1..Len(patterns) : ~ValidGlob(patterns[i])
    THEN [fs |-> f, res |-> "Walk"]
    ELSE CopyEntries(f, target, SourceTree(source), GlobWalk(patterns, walk))

(***************************************************************************)
(* src/assert.rs.  What assert is given is [shape, name, value]: a         *)
(* predicate over the path (shape "path"), a predicate over the text of    *)
(* the file (shape "str"), literal bytes or a literal text.                *)
(***************************************************************************)
PathPredicates == {"exists", "missing", "is_file", "is_dir"}
StrPredicates == {"is_empty", "not_empty"}

PathInput(name) == [name |-> name, shape |-> "path", value |-> <<>>]
StrInput(name) == [name |-> name, shape |-> "str", value |-> <<>>]
BytesInput(bytes) == [name |-> "eq", shape |-> "bytes", value |-> bytes]
TextInput(text) == [name |-> "similar", shape |-> "text", value |-> text]

Inputs ==
    { PathInput(n) : n \in PathPredicates } \cup
    { StrInput(n) : n \in StrPredicates } \cup
    { BytesInput(b) : b \in Contents } \cup
    { TextInput(s) : s \in Texts }

\* IntoPathPredicate::into_path: a predicate over the path is itself, the
\* other shapes are wrapped.
into_path(input) ==
    CASE input.shape = "path" ->
           [kind |-> "Direct", name |-> input.name, value |-> <<>>]
      [] input.shape = "bytes" ->
           [kind |-> "BytesContentPathPredicate", name |-> "eq",
            value |-> input.value]
      [] input.shape = "text" ->
           [kind |-> "StrContentPathPredicate", name |-> "similar",
            value |-> input.value]
      [] OTHER ->
           [kind |-> "StrPathPredicate", name |-> input.name, value |-> <<>>]

PathEval(name, f, p) ==
    CASE name = "exists" -> Exists(f, p)
      [] name = "missing" -> ~Exists(f, p)
      [] name = "is_file" -> IsFile(f, p)
      [] OTHER -> IsDir(f, p)

StrEval(name, text) ==
    CASE name = "is_empty" -> text = <<>>
      [] OTHER -> text # <<>>

\* predicates::str::similar with no distance allowed: the texts are equal.
Similar(orig, edit) == orig = edit

\* The predicate the wrappers hold, on the text of the file.
TextEval(pred, text) ==
    IF pred.kind = "StrContentPathPredicate" THEN Similar(pred.value, text)
    ELSE StrEval(pred.name, text)

\* Predicate::eval of the converted predicate: a file that cannot be read
\* or decoded evaluates to false.
Eval(f, pred, p) ==
    LET read == ReadFile(f, p)
        text == FromUtf8(read.data)
    IN  CASE pred.kind = "Direct" -> PathEval(pred.name, f, p)
          [] pred.kind = "BytesContentPathPredicate" ->
               read.ok /\ read.data = pred.value
          [] OTHER -> read.ok /\ text.ok /\ TextEval(pred, text.text)

NoCase == [found |-> FALSE, by |-> "", error |-> ""]

\* The case of a predicate with no inner predicate: found when the
\* predicate evaluates to what was asked for.
LeafCase(by, expected, actual) ==
    IF expected = actual THEN [found |-> TRUE, by |-> by, error |-> ""]
    ELSE NoCase

\* A decoding that puts U+FFFD for what is not UTF-8 (from_utf8_lossy) and
\* goes on to the inner predicate.
Utf8CaseLossy(pred, expected, bytes) ==
    LET text == FromUtf8(bytes)
    IN  LeafCase(pred.name, expected,
                 TextEval(pred, IF text.ok THEN text.text ELSE <<65533>>))

\* Utf8Predicate::find_case on the bytes read.
Utf8Case(pred, expected, bytes) ==
    LET text == FromUtf8(bytes)
    IN  IF text.ok THEN LeafCase(pred.name, expected, TextEval(pred, text.text))
        ELSE IF expected THEN NoCase
        ELSE [found |-> TRUE, by |-> "Utf8Predicate", error |-> "utf8"]

\* Predicate::find_case of the converted predicate.
FindCase(f, expected, pred, p) ==
    LET read == ReadFile(f, p)
    IN  IF pred.kind = "Direct"
        THEN LeafCase(pred.name, expected, PathEval(pred.name, f, p))
        ELSE IF ~read.ok
        THEN IF expected THEN NoCase
             ELSE [found |-> TRUE, by |-> "FileContentPredicate",
                   error |-> "io"]
        ELSE IF pred.kind = "BytesContentPathPredicate"
        THEN LeafCase(pred.name, expected, read.data = pred.value)
        ELSE Utf8Case(pred, expected, read.data)

\* What a panic of assert prints: the tree of the case and the path.
NoMessage == [path |-> Root, case |-> NoCase]

\* assert that looks for the case of a success in place of a failure.
assert_expected_true(f, path, input) ==
    LET pred == into_path(input)
        case == FindCase(f, TRUE, pred, path)
    IN  IF case.found
        THEN [res |-> "Panic", message |-> [path |-> path, case |-> case]]
        ELSE [res |-> "Ok", message |-> NoMessage]

\* assert: the case that explains a failure is looked for, and panics.
assert(f, path, input) ==
    LET pred == into_path(input)
        case == FindCase(f, FALSE, pred, path)
    IN  IF case.found
        THEN [res |-> "Panic", message |-> [path |-> path, case |-> case]]
        ELSE [res |-> "Ok", message |-> NoMessage]

(***************************************************************************)
(* A test: a sequence of fixture operations and assertions on the          *)
(* temporary directory.  last records the latest call, its outcome, and    *)
(* what lay at its path before it.  held is the path predicate the test    *)
(* converted an input into and keeps, with the input and the tree at the   *)
(* time of the conversion.                                                 *)
(***************************************************************************)
NoInput == [name |-> "", shape |-> "none", value |-> <<>>]

Call(op, path, res) ==
    [data |-> <<>>, source |-> "", res |-> res, path |-> path,
     patterns |-> <<>>, walk |-> <<>>, input |-> NoInput,
     message |-> NoMessage, op |-> op,
     was |-> IF path = Root THEN DirNode ELSE fs[path]]

\* A panic ends the test; a returned error does not.
Running == steps < MaxOps /\ last.res # "Panic"

\* No predicate is kept.
NoHeld ==
    [fs |-> EmptyFs, input |-> NoInput,
     pred |-> [kind |-> "none", name |-> "", value |-> <<>>]]

Init ==
    /\ fs = EmptyFs
    /\ last = [Call("init", Root, "Ok") EXCEPT !.was = DirNode]
    /\ steps = 0
    /\ held = NoHeld

CreateDirAll ==
    \E path \in TempPaths :
        LET r == create_dir_all(fs, path)
        IN  /\ Running
            /\ fs' = r.fs
            /\ last' = Call("create_dir_all", path, r.res)
            /\ steps' = steps + 1
            /\ UNCHANGED held

Touch ==
    \E path \in TempPaths :
        LET r == touch(fs, path)
        IN  /\ Running
            /\ fs' = r.fs
            /\ last' = Call("touch", path, r.res)
            /\ steps' = steps + 1
            /\ UNCHANGED held

WriteBinary ==
    \E path \in TempPaths, data \in Contents :
        LET r == write_binary(fs, path, data)
        IN  /\ Running
            /\ fs' = r.fs
            /\ last' = [Call("write_binary", path, r.res) EXCEPT !.data = data]
            /\ steps' = steps + 1
            /\ UNCHANGED held

WriteStr ==
    \E path \in TempPaths, text \in Texts :
        LET r == write_str(fs, path, text)
        IN  /\ Running
            /\ fs' = r.fs
            /\ last' = [Call("write_str", path, r.res) EXCEPT !.data = text]
            /\ steps' = steps + 1
            /\ UNCHANGED held

\* The files write_file is given: two files, a directory, a missing path.
FileSources ==
    { <<"proj", <<"a.txt">>>>, <<"proj", <<"b.md">>>>, <<"proj", <<"sub">>>>,
      <<"gone", <<"a.txt">>>> }

WriteFile ==
    \E path \in TempPaths, from \in FileSources :
        LET r == write_file(fs, path, SourceTree(from[1])[from[2]])
        IN  /\ Running
            /\ fs' = r.fs
            /\ last' = [Call("write_file", path, r.res)
                          EXCEPT !.source = from[1], !.walk = <<from[2]>>]
            /\ steps' = steps + 1
            /\ UNCHANGED held

CopyFrom ==
    \E source \in Sources, patterns \in PatternLists :
        \E walk \in WalkDir(SourceTree(source), Root) :
            LET r == copy_files(fs, Root, source, patterns, walk)
            IN  /\ Running
                /\ fs' = r.fs
                /\ last' = [Call("copy_from", Root, r.res)
                              EXCEPT !.source = source, !.patterns = patterns,
                                     !.walk = walk]
                /\ steps' = steps + 1
                /\ UNCHANGED held

PathAssert ==
    \E path \in AllPaths, input \in Inputs :
        LET r == assert(fs, path, input)
        IN  /\ Running
            /\ fs' = fs
            /\ last' = [Call("assert", path, r.res)
                          EXCEPT !.input = input, !.message = r.message]
            /\ steps' = steps + 1
            /\ UNCHANGED held

Next ==
    \/ CreateDirAll
    \/ Touch
    \/ WriteBinary
    \/ WriteStr
    \/ WriteFile
    \/ CopyFrom
    \/ PathAssert

Spec == Init /\ [][Next]_vars

(***************************************************************************)
(* A test that converts an input into a path predicate once, keeps it, and *)
(* hands it to assert later: a path predicate is itself an input, which    *)
(* assert converts into itself.                                            *)
(***************************************************************************)
\* input.into_path(): the predicate is made from the input alone.
IntoPath ==
    \E input \in Inputs :
        /\ held = NoHeld
        /\ last.res # "Panic"
        /\ held' = [fs |-> fs, input |-> input, pred |-> into_path(input)]
        /\ last' = [Call("into_path", Root, "Ok") EXCEPT !.input = input]
        /\ UNCHANGED <<fs, steps>>

\* An assert that evaluates the predicate on the tree as it was when the
\* predicate was made.
AssertHeldEager ==
    \E path \in AllPaths :
        LET case == FindCase(held.fs, FALSE, held.pred, path)
        IN  /\ Running
            /\ held # NoHeld
            /\ fs' = fs
            /\ last' = [Call("assert_held", path,
                             IF case.found THEN "Panic" ELSE "Ok")
                          EXCEPT !.input = held.input,
                                 !.message =
                                    IF case.found
                                    THEN [path |-> path, case |-> case]
                                    ELSE NoMessage]
            /\ steps' = steps + 1
            /\ UNCHANGED held

\* path.assert(held): find_case of the kept predicate, on the path.
AssertHeld ==
    \E path \in AllPaths :
        LET case == FindCase(fs, FALSE, held.pred, path)
        IN  /\ Running
            /\ held # NoHeld
            /\ fs' = fs
            /\ last' = [Call("assert_held", path,
                             IF case.found THEN "Panic" ELSE "Ok")
                          EXCEPT !.input = held.input,
                                 !.message =
                                    IF case.found
                                    THEN [path |-> path, case |-> case]
                                    ELSE NoMessage]
            /\ steps' = steps + 1
            /\ UNCHANGED held

LazyNext ==
    \/ IntoPath
    \/ CreateDirAll
    \/ Touch
    \/ WriteBinary
    \/ WriteStr
    \/ AssertHeld

LazySpec == Init /\ [][LazyNext]_vars

(***************************************************************************)
(* The properties.                                                         *)
(***************************************************************************)
FileWrites == {"touch", "write_binary", "write_str", "write_file"}

\* C1: after write_binary(p, b) succeeds, assert(p, b) passes, and
\* assert(p, b') panics for every other byte sequence b'.
C1_WriteBinaryThenAssertBytes ==
    (last.op = "write_binary" /\ last.res = "Ok") =>
        \A b \in Contents :
            (assert(fs, last.path, BytesInput(b)).res = "Ok")
                <=> (b = last.data)

\* A write of bytes that are not empty to a path where nothing lay, after
\* which the assertion of the same bytes passes.
C1_Witness ==
    /\ last.op = "write_binary" /\ last.res = "Ok"
    /\ last.was.kind = "missing" /\ last.data # <<>>
    /\ assert(fs, last.path, BytesInput(last.data)).res = "Ok"
    /\ assert(fs, last.path, BytesInput(<<>>)).res = "Panic"

\* C2: after write_str(p, s) succeeds, assert(p, s) passes.
C2_WriteStrThenAssertText ==
    (last.op = "write_str" /\ last.res = "Ok") =>
        assert(fs, last.path, TextInput(last.data)).res = "Ok"

\* A write of a text with a scalar value of two bytes, after which the
\* assertion of the same text passes.
C2_Witness ==
    /\ last.op = "write_str" /\ last.res = "Ok"
    /\ last.data = <<233>>
    /\ fs[last.path] = FileNode(<<195, 169>>)
    /\ assert(fs, last.path, TextInput(last.data)).res = "Ok"

\* C3: a touch, write_binary, write_str or write_file on a path whose parent
\* directories do not exist never fails for the lack of them, and when it
\* succeeds every directory above the path is a directory and the path is a
\* file.
C3_ParentsAreCreated ==
    [][ ( /\ last'.op \in FileWrites
          /\ Ancestors(last'.path) # {}
          /\ \A a \in Ancestors(last'.path) : ~Exists(fs, a) )
        => /\ last'.res # "CreateDir"
           /\ last'.op # "write_file" => last'.res = "Ok"
           /\ last'.res = "Ok" =>
                /\ \A a \in Ancestors(last'.path) : IsDir(fs', a)
                /\ IsFile(fs', last'.path) ]_vars

\* A write, as the first operation of a test, to a path two missing
\* directories down.
C3_Witness ==
    /\ steps = 1 /\ last.op = "write_binary" /\ last.res = "Ok"
    /\ Cardinality(Ancestors(last.path)) = 2
    /\ \A a \in Ancestors(last.path) : IsDir(fs, a)
    /\ IsFile(fs, last.path)

\* What copy_from leaves in an empty target: each matched file with the
\* bytes of the source, each matched directory, and the directories above
\* them.
Mirror(tree, patterns) ==
    [p \in TempPaths |->
        IF tree[p].kind = "file" /\ Matched(patterns, p) THEN tree[p]
        ELSE IF \/ tree[p].kind = "dir" /\ Matched(patterns, p)
                \/ \E q \in TempPaths :
                      /\ tree[q].kind \in {"file", "dir"}
                      /\ Matched(patterns, q)
                      /\ p \in Ancestors(q)
        THEN DirNode
        ELSE MissingNode]

\* C4: copy_from into an empty target copies exactly the matching entries:
\* from a source of a.txt, b.md and sub/c.txt with the pattern *.txt the
\* target holds a.txt and sub/c.txt with the source's bytes, the directory
\* sub, and nothing else; in general a matched file is copied whether or
\* not its directory is matched, and a file that nothing matches is not.
C4_CopyExactlyTheMatches ==
    [][ ( /\ last'.op = "copy_from"
          /\ fs = EmptyFs )
        => /\ ( last'.source = "proj" /\ last'.patterns = <<"*.txt">> ) =>
                /\ last'.res = "Ok"
                /\ fs' = [p \in TempPaths |->
                            CASE p = <<"a.txt">> -> FileNode(<<97>>)
                              [] p = <<"sub", "c.txt">> -> FileNode(<<169>>)
                              [] p = <<"sub">> -> DirNode
                              [] OTHER -> MissingNode]
           /\ last'.res = "Ok" =>
                fs' = Mirror(SourceTree(last'.source), last'.patterns) ]_vars

\* The copy of the example, as the first operation of a test.
C4_Witness ==
    /\ steps = 1 /\ last.op = "copy_from" /\ last.res = "Ok"
    /\ last.source = "proj" /\ last.patterns = <<"*.txt">>
    /\ fs[<<"sub", "c.txt">>] = FileNode(<<169>>)
    /\ ~Exists(fs, <<"b.md">>)

NoWalkError(walk) == \A i \in 1..Len(walk) : walk[i].kind # "error"

\* C5 as stated: copy_from with no pattern returns Ok and creates nothing,
\* whatever the source holds.
C5_EmptyPatternsAlwaysOk ==
    [][ ( /\ last'.op = "copy_from"
          /\ last'.patterns = <<>>
          /\ SourceExists(last'.source) )
        => last'.res = "Ok" /\ fs' = fs ]_vars

\* C5, amended: copy_from with no pattern creates nothing, and returns Ok
\* when the source exists and the walk of it meets no error; otherwise it
\* returns the Walk error.
C5_EmptyPatternsCopyNothing ==
    [][ ( /\ last'.op = "copy_from"
          /\ last'.patterns = <<>> )
        => /\ fs' = fs
           /\ IF SourceExists(last'.source) /\ NoWalkError(last'.walk)
              THEN last'.res = "Ok"
              ELSE last'.res = "Walk" ]_vars

\* A copy with no pattern from the source of a.txt, b.md and sub/c.txt.
C5_Witness ==
    /\ last.op = "copy_from" /\ last.patterns = <<>> /\ last.res = "Ok"
    /\ last.source = "proj"
    /\ fs = EmptyFs

\* C6: assert panics exactly when the converted predicate evaluates to
\* false on the path, with a message that holds the case found and the
\* path; when the predicate holds it returns, and either way the tree is as
\* it was.
C6_AssertPanicsIffFalse ==
    [][ last'.op = "assert" =>
          /\ fs' = fs
          /\ (last'.res = "Panic") <=>
                ~Eval(fs, into_path(last'.input), last'.path)
          /\ last'.res # "Panic" =>
                last'.res = "Ok" /\ last'.message = NoMessage
          /\ last'.res = "Panic" =>
                /\ last'.message.case.found
                /\ last'.message.path = last'.path ]_vars

\* An assertion of literal bytes that panics on a file that holds other
\* bytes.
C6_Witness ==
    /\ last.op = "assert" /\ last.res = "Panic"
    /\ last.input.shape = "bytes"
    /\ IsFile(fs, last.path)
    /\ fs[last.path].data # last.input.value

TextShapes == {"text", "str"}

\* C7: an assertion of a literal text or of a predicate over the text, on a
\* file whose bytes are not UTF-8, panics with the case of the decoder and
\* its error; on a file that is UTF-8 a panic carries the case of the inner
\* predicate, with no error; and no fixture operation panics or fails for
\* the bytes it is given.
C7_InvalidUtf8FailsAsDecodeCase ==
    /\ ( /\ last.op = "assert"
         /\ last.input.shape \in TextShapes
         /\ IsFile(fs, last.path) )
       => IF FromUtf8(fs[last.path].data).ok
          THEN last.res = "Panic" =>
                 /\ last.message.case.error = ""
                 /\ last.message.case.by = last.input.name
          ELSE /\ last.res = "Panic"
               /\ last.message.case.error = "utf8"
               /\ last.message.case.by = "Utf8Predicate"
    /\ ( /\ last.op = "write_binary"
         /\ ~FromUtf8(last.data).ok
         /\ last.was.kind = "file" )
       => last.res = "Ok"

\* An assertion that the text is not empty, on a file that holds a lone
\* continuation byte.
C7_Witness ==
    /\ last.op = "assert" /\ last.res = "Panic"
    /\ last.input = StrInput("not_empty")
    /\ IsFile(fs, last.path)
    /\ fs[last.path].data = <<169>>
    /\ last.message.case.error = "utf8"

\* C8: create_dir_all on a directory succeeds and changes nothing, and
\* write_binary on a file succeeds and leaves the bytes it is given and no
\* others.
C8_RepeatIsSafeLastWins ==
    [][ /\ ( last'.op = "create_dir_all" /\ IsDir(fs, last'.path) )
           => last'.res = "Ok" /\ fs' = fs
        /\ ( last'.op = "write_binary" /\ IsFile(fs, last'.path) )
           => /\ last'.res = "Ok"
              /\ fs' = [fs EXCEPT ![last'.path] = FileNode(last'.data)] ]_vars

\* A write of bytes over a file that held other bytes.
C8_Witness ==
    /\ last.op = "write_binary" /\ last.res = "Ok"
    /\ last.was.kind = "file"
    /\ last.was.data # <<>> /\ last.data # <<>>
    /\ last.was.data # last.data
    /\ fs[last.path] = FileNode(last.data)

SinglePathOps == FileWrites \cup {"create_dir_all", "assert"}

\* C9: touch succeeds on a file whatever it holds, and after a successful
\* touch the path is an empty file, on which the assertions of existence
\* and of the empty text pass; an operation on one path leaves every path
\* that is neither that path nor above it as it was, so that the assertion
\* that such a path is missing goes on passing.
C9_TouchMakesEmptyFile ==
    [][ /\ last'.op = "touch" =>
              /\ IsFile(fs, last'.path) => last'.res = "Ok"
              /\ last'.res = "Ok" =>
                    /\ fs'[last'.path] = FileNode(<<>>)
                    /\ assert(fs', last'.path, PathInput("exists")).res = "Ok"
                    /\ assert(fs', last'.path, TextInput(<<>>)).res = "Ok"
        /\ last'.op \in SinglePathOps =>
              \A q \in TempPaths \ ({last'.path} \cup Ancestors(last'.path)) :
                    /\ fs'[q] = fs[q]
                    /\ ~Exists(fs, q) =>
                          assert(fs', q, PathInput("missing")).res = "Ok"
      ]_vars

\* A touch of a file that held bytes, beside a path that is missing.
C9_Witness ==
    /\ last.op = "touch" /\ last.res = "Ok"
    /\ last.was.kind = "file" /\ last.was.data # <<>>
    /\ fs[last.path] = FileNode(<<>>)
    /\ \E q \in TempPaths : ~Exists(fs, q)

\* The paths of the entries before the k-th, and the directories above them.
Reached(entries, k) ==
    UNION { {entries[i].path} \cup Ancestors(entries[i].path) :
                i \in 1..(k - 1) }

\* C10: a copy_from that fails in its loop fails at one entry: the kind of
\* the error is that of the step that entry asked for, every entry before
\* it is in the target, and nothing is changed but for those entries (and,
\* when the copy of a file failed, the directories made for it); a
\* copy_from that fails before its loop changes nothing.
C10_FirstFailureAborts ==
    [][ ( last'.op = "copy_from" /\ last'.res # "Ok" ) =>
          LET tree == SourceTree(last'.source)
              entries == GlobWalk(last'.patterns, last'.walk)
          IN  IF \/ ~SourceExists(last'.source)
                 \/ \E i \in 1..Len(last'.patterns) :
                       ~ValidGlob(last'.patterns[i])
              THEN fs' = fs
              ELSE \E k \in 1..Len(entries) :
                     /\ CASE last'.res = "Walk" -> entries[k].kind = "error"
                          [] last'.res = "CreateDir" ->
                               entries[k].kind \in {"dir", "file"}
                          [] last'.res = "CopyFile" -> entries[k].kind = "file"
                          [] OTHER -> FALSE
                     /\ \A i \in 1..(k - 1) :
                          CASE entries[i].kind = "file" ->
                                 fs'[entries[i].path] = tree[entries[i].path]
                            [] entries[i].kind = "dir" ->
                                 IsDir(fs', entries[i].path)
                            [] OTHER -> FALSE
                     /\ \A q \in TempPaths :
                          fs'[q] # fs[q] =>
                             \/ q \in Reached(entries, k)
                             \/ /\ last'.res = "CopyFile"
                                /\ q \in Ancestors(entries[k].path) ]_vars

\* A copy that failed at a file after it had copied another, with a matched
\* file of the source that is not in the target.
C10_Witness ==
    /\ last.op = "copy_from" /\ last.res = "CopyFile"
    /\ LET tree == SourceTree(last.source)
           entries == GlobWalk(last.patterns, last.walk)
       IN  \E i, k, j \in 1..Len(entries) :
              /\ i < k /\ k < j
              /\ entries[i].kind = "file"
              /\ fs[entries[i].path] = tree[entries[i].path]
              /\ entries[k].kind = "file"
              /\ IsDir(fs, entries[k].path)
              /\ entries[j].kind = "file"
              /\ ~Exists(fs, entries[j].path)

FixtureOps ==
    {"create_dir_all", "touch", "write_binary", "write_str", "write_file",
     "copy_from"}

FixtureKinds == {"CreateDir", "WriteFile", "CopyFile", "Walk"}

\* A file lies where a directory above p has to be.
FileAbove(f, p) == \E a \in Ancestors(p) : IsFile(f, a)

\* The phase at which the step for one entry of the walk fails in tree f,
\* "Ok" when it does not: the walk itself, the making of the directory or
\* of the directories above the file, the copy of the file.
EntryPhase(f, entry) ==
    CASE entry.kind = "error" -> "Walk"
      [] entry.kind = "dir" ->
           IF FileAbove(f, entry.path) \/ IsFile(f, entry.path)
           THEN "CreateDir" ELSE "Ok"
      [] entry.kind = "file" ->
           IF FileAbove(f, entry.path) THEN "CreateDir"
           ELSE IF IsDir(f, entry.path) THEN "CopyFile"
           ELSE "Ok"
      [] OTHER -> "Ok"

\* The phase of the first entry whose step fails, "Ok" when none does.
RECURSIVE FirstFailure(_, _)
FirstFailure(f, entries) ==
    IF entries = <<>> THEN "Ok"
    ELSE LET phase == EntryPhase(f, Head(entries))
         IN  IF phase # "Ok" THEN phase ELSE FirstFailure(f, Tail(entries))

\* C11: a fixture operation never panics; it returns Ok or an error whose
\* kind is that of the first phase that fails in the tree it is called on:
\* CreateDir when a file lies where a directory is needed (the path of
\* create_dir_all, a directory above the path of the others), WriteFile
\* when the file cannot be created because a directory lies at the path,
\* CopyFile when fs::copy fails (the source is no regular file, or a
\* directory lies at the path), Walk when the source of copy_from does not
\* resolve, a pattern is no glob, or the walk meets an error.
C11_ErrorKindNamesThePhase ==
    [][ last'.op \in FixtureOps =>
          LET p == last'.path
              expected ==
                CASE last'.op = "create_dir_all" ->
                       IF FileAbove(fs, p) \/ IsFile(fs, p)
                       THEN "CreateDir" ELSE "Ok"
                  [] last'.op \in {"touch", "write_binary", "write_str"} ->
                       IF FileAbove(fs, p) THEN "CreateDir"
                       ELSE IF IsDir(fs, p) THEN "WriteFile"
                       ELSE "Ok"
                  [] last'.op = "write_file" ->
                       IF FileAbove(fs, p) THEN "CreateDir"
                       ELSE IF \/ ~SourceExists(last'.source)
                               \/ SourceTree(last'.source)[last'.walk[1]].kind
                                     # "file"
                               \/ IsDir(fs, p)
                       THEN "CopyFile"
                       ELSE "Ok"
                  [] OTHER ->
                       IF \/ ~SourceExists(last'.source)
                          \/ \E i \in 1..Len(last'.patterns) :
                                ~ValidGlob(last'.patterns[i])
                       THEN "Walk"
                       ELSE FirstFailure(fs, GlobWalk(last'.patterns,
                                                      last'.walk))
          IN  /\ last'.res \in FixtureKinds \cup {"Ok"}
              /\ last'.res = expected ]_vars

\* A copy_from whose source does not resolve has returned Walk.
C11_Witness ==
    /\ last.op = "copy_from"
    /\ ~SourceExists(last.source)
    /\ last.res = "Walk"

\* C12: converting an input into a path predicate changes no file and gives
\* a predicate that depends on the input alone; a kept predicate handed to
\* assert is decided by what lies at the path when assert is called
\* (literal bytes: a file that holds them; literal text: a file that holds
\* its UTF-8 bytes; a predicate over text: a file of UTF-8 whose text
\* satisfies it; a predicate over the path: the path as it is), whatever
\* lay there when the predicate was made.
C12_ConversionIsLazy ==
    [][ /\ last'.op = "into_path" =>
              /\ fs' = fs
              /\ held'.pred = into_path(last'.input)
        /\ last'.op = "assert_held" =>
              LET p == last'.path
                  input == held.input
                  now == fs'
                  passes ==
                    CASE input.shape = "path" -> PathEval(input.name, now, p)
                      [] input.shape = "bytes" ->
                           IsFile(now, p) /\ now[p].data = input.value
                      [] input.shape = "text" ->
                           IsFile(now, p) /\ now[p].data = AsBytes(input.value)
                      [] OTHER ->
                           /\ IsFile(now, p)
                           /\ FromUtf8(now[p].data).ok
                           /\ StrEval(input.name, FromUtf8(now[p].data).text)
              IN  /\ fs' = fs
                  /\ (last'.res = "Ok") <=> passes ]_vars

\* Literal bytes were converted while nothing lay at the path, the bytes
\* were written there afterwards, and the kept predicate then passed.
C12_Witness ==
    /\ last.op = "assert_held"
    /\ last.res = "Ok"
    /\ held.input.shape = "bytes"
    /\ ~Exists(held.fs, last.path)
    /\ IsFile(fs, last.path)
    /\ fs[last.path].data = held.input.value

=============================================================================
